---- MODULE Spec2Model ----
(***************************************************************************)
(* Model of rrt-tool.py, the round-trip translation tool: a Python         *)
(* function is extracted (parse_python_function), emitted as C and Java    *)
(* text (generate_c_code, generate_java_code), recovered by a regular      *)
(* expression (IF_RETURN_PATTERN, c_to_python, java_to_python) and          *)
(* verified by patching it into the module registered as 'original' and    *)
(* running the unittest suite (run_tests_with_roundtrip, main).            *)
(*                                                                         *)
(* Text is a sequence of one-character strings, so that the regular        *)
(* expression, str.strip and textwrap.dedent act on characters as they do  *)
(* in the program.                                                         *)
(***************************************************************************)
EXTENDS Integers, Sequences, FiniteSets, TLC

(***************************************************************************)
(* Text helpers                                                            *)
(***************************************************************************)

\* A text that was never produced.
NoText == << >>

\* What Python's \s and str.strip treat as whitespace (of the characters
\* that occur in the model's texts).
IsWs(c) == c \in {" ", "\n", "\t"}

RECURSIVE Cat(_)
\* Concatenation of a sequence of texts (the f-string substitution).
Cat(parts) == IF parts = << >> THEN << >> ELSE Head(parts) \o Cat(Tail(parts))

RECURSIVE JoinWith(_, _)
\* sep.join(parts)
JoinWith(parts, sep) ==
    IF parts = << >> THEN << >>
    ELSE IF Len(parts) = 1 THEN parts[1]
    ELSE parts[1] \o sep \o JoinWith(Tail(parts), sep)

\* The smallest element of a non-empty set of numbers.
MinOf(S) == CHOOSE x \in S : \A y \in S : x <= y

\* The smallest element of a set of numbers, 0 when it is empty.
FirstOr0(S) == IF S = {} THEN 0 ELSE MinOf(S)

\* Position of the first character c of t at or after i, 0 when there is none.
FindChar(t, i, c) == FirstOr0({k \in i..Len(t) : t[k] = c})

RECURSIVE SplitLines(_, _)
RECURSIVE SplitAt(_, _, _)
\* text.split("\n"): the lines of t from position i on.
SplitLines(t, i) == SplitAt(t, i, FindChar(t, i, "\n"))
\* e is the first newline from i on, 0 when there is none.
SplitAt(t, i, e) ==
    IF e = 0 THEN << SubSeq(t, i, Len(t)) >>
    ELSE << SubSeq(t, i, e - 1) >> \o SplitLines(t, e + 1)

\* A line of spaces and tabs only (textwrap's _whitespace_only_re).
IsBlankLine(l) == \A k \in 1..Len(l) : l[k] \in {" ", "\t"}

RECURSIVE Indent(_, _)
\* Number of leading spaces of line l from position i.
Indent(l, i) == IF i <= Len(l) /\ l[i] = " " THEN 1 + Indent(l, i + 1) ELSE 0

\* textwrap.dedent: whitespace-only lines become empty, and the margin common
\* to the other lines is removed from each of them.
Margin(lines) ==
    FirstOr0({Indent(lines[k], 1) : k \in {n \in 1..Len(lines) : ~IsBlankLine(lines[n])}})

Cut(l, margin) == IF IsBlankLine(l) THEN << >> ELSE SubSeq(l, margin + 1, Len(l))

DedentLines(lines, margin) ==
    JoinWith([k \in 1..Len(lines) |-> Cut(lines[k], margin)], << "\n" >>)

dedent(t) == DedentLines(SplitLines(t, 1), Margin(SplitLines(t, 1)))

RECURSIVE LStrip(_, _, _)
LStrip(t, lo, hi) == IF lo <= hi /\ IsWs(t[lo]) THEN LStrip(t, lo + 1, hi) ELSE lo

RECURSIVE RStrip(_, _, _)
RStrip(t, lo, hi) == IF lo <= hi /\ IsWs(t[hi]) THEN RStrip(t, lo, hi - 1) ELSE hi

\* t[lo..hi].strip()
strip(t, lo, hi) == SubSeq(t, LStrip(t, lo, hi), RStrip(t, LStrip(t, lo, hi), hi))

(***************************************************************************)
(* Expressions of the ast, and ast.unparse                                 *)
(***************************************************************************)

Name(id)            == [k |-> "Name", id |-> id]
Num(v)              == [k |-> "Constant", v |-> v]
BinOp(l, op, r)     == [k |-> "BinOp", op |-> op, l |-> l, r |-> r]
Compare(l, op, r)   == [k |-> "Compare", op |-> op, l |-> l, r |-> r]
Call(f, arg)        == [k |-> "Call", f |-> f, arg |-> arg]
\* A return statement without a value has value None.
NoneValue           == [k |-> "None"]

\* ast._Precedence of an expression node: CMP (8) for comparisons, ARITH (13)
\* for + and -, TERM (14) for * / %, ATOM (18) otherwise; a node whose context
\* sets nothing is traversed at TEST (4).
PrecOf(e) ==
    CASE e.k = "Compare" -> 8
      [] e.k = "BinOp" /\ e.op \in {<<"+">>, <<"-">>} -> 13
      [] e.k = "BinOp" -> 14
      [] OTHER -> 18

RECURSIVE unparse(_, _)
\* ast.unparse of node e where the context requires precedence req: the node
\* is delimited by parentheses when req exceeds its own precedence.  The left
\* operand of a binary operator inherits the operator's precedence, the right
\* operand the next one; the operands of a comparison get CMP.next().
unparse(e, req) ==
    LET body ==
            CASE e.k = "Name" -> e.id
              [] e.k = "Constant" -> e.v
              [] e.k = "Call" -> e.f \o <<"(">> \o unparse(e.arg, 4) \o <<")">>
              [] e.k = "BinOp" ->
                    unparse(e.l, PrecOf(e)) \o <<" ">> \o e.op \o <<" ">>
                        \o unparse(e.r, PrecOf(e) + 1)
              [] e.k = "Compare" ->
                    unparse(e.l, 9) \o <<" ">> \o e.op \o <<" ">> \o unparse(e.r, 9)
    IN  IF req > PrecOf(e) THEN <<"(">> \o body \o <<")">> ELSE body

\* expr_to_source: ast.unparse, or '<expr>' when it raises (a missing value).
expr_to_source(e) == IF e.k = "None" THEN <<"<","e","x","p","r",">">> ELSE unparse(e, 4)

(***************************************************************************)
(* Statements and top-level nodes of the ast                               *)
(***************************************************************************)

Return(v)             == [kind |-> "Return", value |-> v]
Assign(v)             == [kind |-> "Assign", value |-> v]
Expr(v)               == [kind |-> "Expr", value |-> v]
Pass                  == [kind |-> "Pass"]
If(test, body, orelse) ==
    [kind |-> "If", test |-> test, body |-> body, orelse |-> orelse]

FunctionDef(name, args, body) ==
    [kind |-> "FunctionDef", name |-> name, args |-> args, body |-> body]
\* Any top-level statement that is not an ast.FunctionDef.
OtherNode == [kind |-> "Other"]

\* Whether a statement has the attribute .value (Return, Assign, Expr).
HasValue(s) == s.kind \in {"Return", "Assign", "Expr"}

(***************************************************************************)
(* IF_RETURN_PATTERN (re.DOTALL | re.VERBOSE) and re.search                *)
(***************************************************************************)

RECURSIVE SkipWs(_, _)
\* \s* from position i (greedy; what follows is never whitespace).
SkipWs(t, i) == IF i <= Len(t) /\ IsWs(t[i]) THEN SkipWs(t, i + 1) ELSE i

\* The literal lit at position i of t.
HasLit(t, i, lit) ==
    /\ i >= 1
    /\ i + Len(lit) - 1 <= Len(t)
    /\ \A k \in 1..Len(lit) : t[i + k - 1] = lit[k]

NoMatch == [ok |-> FALSE]

\* The match state threaded through the pattern: the position reached and the
\* spans of the groups 'true' and 'false' found so far.
MatchState(pos) ==
    [ok |-> TRUE, pos |-> pos, tlo |-> 0, thi |-> 0, flo |-> 0, fhi |-> 0]

\* The literal lit at position p, the state moving past it.
LitAt(t, st, p, lit) ==
    IF HasLit(t, p, lit) THEN [st EXCEPT !.pos = p + Len(lit)] ELSE NoMatch

\* \s* followed by a literal.
Lit(t, st, lit) ==
    IF ~st.ok THEN st ELSE LitAt(t, st, SkipWs(t, st.pos), lit)

\* The group between the whitespace after `return` (from g on) and the ';' at s.
GroupFrom(g, s) ==
    [ok |-> TRUE, lo |-> IF g >= s THEN s - 1 ELSE g, hi |-> s - 1, next |-> s + 1]

\* \s+(?P<g>[^;]+);  at position r, s being the first ';' from r on (0: none).
\* The group is greedy and cannot hold ';', so it ends right before s; \s+
\* takes the whitespace at r and gives one character back when nothing else
\* is left for the group.
GroupSpan(t, r, s) ==
    IF s = 0 \/ ~IsWs(t[r]) \/ s - r < 2 THEN NoMatch
    ELSE GroupFrom(SkipWs(t, r), s)

\* return\s+(?P<g>[^;]+);  at position i.
ReturnGroup(t, i) ==
    IF ~HasLit(t, i, <<"r","e","t","u","r","n">>) THEN NoMatch
    ELSE GroupSpan(t, i + 6, FindChar(t, i + 6, ";"))

TrueAt(st, g) ==
    IF ~g.ok THEN NoMatch
    ELSE [st EXCEPT !.pos = g.next, !.tlo = g.lo, !.thi = g.hi]

\* \s*return\s+(?P<true>[^;]+);
ReturnTrue(t, st) ==
    IF ~st.ok THEN st ELSE TrueAt(st, ReturnGroup(t, SkipWs(t, st.pos)))

FalseAt(st, g) ==
    IF ~g.ok THEN NoMatch
    ELSE [st EXCEPT !.pos = g.next, !.flo = g.lo, !.fhi = g.hi]

\* \s*return\s+(?P<false>[^;]+);
ReturnFalse(t, st) ==
    IF ~st.ok THEN st ELSE FalseAt(st, ReturnGroup(t, SkipWs(t, st.pos)))

\* \s*\)\s*\{\s*return\s+(?P<true>[^;]+);\s*\}\s*else\s*\{\s*return\s+
\* (?P<false>[^;]+);\s*\}   at position j (lines 24-26 after the condition).
PatternTail(t, j) ==
    Lit(t, ReturnFalse(t, Lit(t, Lit(t, Lit(t, ReturnTrue(t,
        Lit(t, Lit(t, MatchState(j), <<")">>), <<"{">>)), <<"}">>), <<"e","l","s","e">>), <<"{">>)), <<"}">>)

\* (?P<cond>.*?): the shortest span from the condition's start c0 whose end
\* lets the rest of the pattern match; '.' matches newlines too (re.DOTALL).
\* The position after the span, 0 when no end does.
LazyCond(t, c0) == FirstOr0({j \in c0..(Len(t) + 1) : PatternTail(t, j).ok})

\* The match that starts at i, with the condition from c0 to before j.
WithCond(i, c0, j, tl) ==
    [ok |-> TRUE, start |-> i, clo |-> c0, chi |-> j - 1,
     tlo |-> tl.tlo, thi |-> tl.thi, flo |-> tl.flo, fhi |-> tl.fhi]

CondEnd(t, i, c0, j) ==
    IF j = 0 THEN NoMatch ELSE WithCond(i, c0, j, PatternTail(t, j))

CondFrom(t, i, st) ==
    IF ~st.ok THEN NoMatch
    ELSE CondEnd(t, i, SkipWs(t, st.pos), LazyCond(t, SkipWs(t, st.pos)))

\* if\s*\(\s*(?P<cond>.*?) ...  anchored at position i.
MatchAt(t, i) ==
    IF ~HasLit(t, i, <<"i","f">>) THEN NoMatch
    ELSE CondFrom(t, i, Lit(t, MatchState(i + 2), <<"(">>))

\* The match at the leftmost of the positions that have one.
Leftmost(t, starts) ==
    IF starts = {} THEN NoMatch ELSE MatchAt(t, MinOf(starts))

\* IF_RETURN_PATTERN.search(text)
IF_RETURN_PATTERN(t) ==
    Leftmost(t, {i \in 1..Len(t) : HasLit(t, i, <<"i","f">>) /\ MatchAt(t, i).ok})

\* m.group('cond').strip(), m.group('true').strip(), m.group('false').strip()
Groups(t, m) ==
    [cond      |-> strip(t, m.clo, m.chi),
     true_ret  |-> strip(t, m.tlo, m.thi),
     false_ret |-> strip(t, m.flo, m.fhi)]

(***************************************************************************)
(* Results of operations that may raise                                    *)
(***************************************************************************)

Ok(v)    == [ok |-> TRUE, val |-> v]
Raise(e) == [ok |-> FALSE, err |-> e]

(***************************************************************************)
(* Emitters and reverse extractors                                         *)
(***************************************************************************)

\* ', '.join(f'double {arg}' for arg in args)
Params(args) ==
    JoinWith([k \in 1..Len(args) |-> <<"d","o","u","b","l","e"," ">> \o args[k]], <<","," ">>)

RECURSIVE FirstIf(_, _)
\* for n in node.body: if isinstance(n, ast.If): if_stmt = n; break
\* The index of the first ast.If of body at or after i, 0 when there is none.
FirstIf(body, i) ==
    IF i > Len(body) THEN 0
    ELSE IF body[i].kind = "If" THEN i
    ELSE FirstIf(body, i + 1)

\* Lines 74-84 and 108-118: the condition and the two return expressions, or
\* what the subscripts and attribute accesses raise.
IfSources(if_stmt) ==
    IF if_stmt.body = << >> THEN Raise("IndexError")
    ELSE IF ~HasValue(if_stmt.body[1]) THEN Raise("AttributeError")
    ELSE IF if_stmt.orelse = << >> THEN Raise("IndexError")
    ELSE IF ~HasValue(if_stmt.orelse[1]) THEN Raise("AttributeError")
    ELSE Ok([cond      |-> expr_to_source(if_stmt.test),
             true_ret  |-> expr_to_source(if_stmt.body[1].value),
             false_ret |-> expr_to_source(if_stmt.orelse[1].value)])

IfPartsAt(node, i, unsupported) ==
    IF i = 0 THEN Raise(unsupported) ELSE IfSources(node.body[i])

IfParts(node, unsupported) == IfPartsAt(node, FirstIf(node.body, 1), unsupported)

\* The f-string of lines 85-100 before textwrap.dedent.
CTemplate(name, params, p) ==
    Cat(<< <<"\n"," "," "," "," ","#","i","n","c","l","u","d","e"," ","<","s","t","d","i","o",".","h",">","\n","\n"," "," "," "," ","d","o","u","b","l","e"," ">>, name, <<"(">>, params,
           <<")"," ","{","\n"," "," "," "," "," "," "," "," ","i","f"," ","(">>, p.cond,
           <<")"," ","{","\n"," "," "," "," "," "," "," "," "," "," "," "," ","r","e","t","u","r","n"," ">>, p.true_ret,
           <<";","\n"," "," "," "," "," "," "," "," ","}"," ","e","l","s","e"," ","{","\n"," "," "," "," "," "," "," "," "," "," "," "," ","r","e","t","u","r","n"," ">>, p.false_ret,
           <<";","\n"," "," "," "," "," "," "," "," ","}","\n"," "," "," "," ","}","\n","\n"," "," "," "," ","i","n","t"," ","m","a","i","n","(","v","o","i","d",")"," ","{","\n">>,
           <<" "," "," "," "," "," "," "," ","/","/"," ","E","x","a","m","p","l","e"," ","d","r","i","v","e","r"," ","(","n","o","t"," ","u","s","e","d"," ","b","y"," ","t","h","e"," ","P","y","t","h","o","n"," ","r","o","u","n","d","-","t","r","i","p",")","\n">>,
           <<" "," "," "," "," "," "," "," ","r","e","t","u","r","n"," ","0",";","\n"," "," "," "," ","}","\n"," "," "," "," ">> >>)

EmitC(info, parts) ==
    IF ~parts.ok THEN parts
    ELSE Ok(dedent(CTemplate(info.name, Params(info.args), parts.val)))

generate_c_code(info) == EmitC(info, IfParts(info.ast, "UnsupportedBodyC"))

\* The f-string of lines 119-129 before textwrap.dedent.
JavaTemplate(name, params, p) ==
    Cat(<< <<"\n"," "," "," "," ","p","u","b","l","i","c"," ","c","l","a","s","s"," ","O","r","i","g","i","n","a","l"," ","{","\n"," "," "," "," "," "," "," "," ","p","u","b","l","i","c"," ","s","t","a","t","i","c"," ","d","o","u","b","l","e"," ">>,
           name, <<"(">>, params,
           <<")"," ","{","\n"," "," "," "," "," "," "," "," "," "," "," "," ","i","f"," ","(">>, p.cond,
           <<")"," ","{","\n"," "," "," "," "," "," "," "," "," "," "," "," "," "," "," "," ","r","e","t","u","r","n"," ">>, p.true_ret,
           <<";","\n"," "," "," "," "," "," "," "," "," "," "," "," ","}"," ","e","l","s","e"," ","{","\n"," "," "," "," "," "," "," "," "," "," "," "," "," "," "," "," ","r","e","t","u","r","n"," ">>, p.false_ret,
           <<";","\n"," "," "," "," "," "," "," "," "," "," "," "," ","}","\n"," "," "," "," "," "," "," "," ","}","\n"," "," "," "," ","}","\n"," "," "," "," ">> >>)

EmitJava(info, parts) ==
    IF ~parts.ok THEN parts
    ELSE Ok(dedent(JavaTemplate(info.name, Params(info.args), parts.val)))

generate_java_code(info) == EmitJava(info, IfParts(info.ast, "UnsupportedBodyJava"))

\* The f-string of lines 143-149 and 161-167 before textwrap.dedent.
PyTemplate(py_name, g) ==
    Cat(<< <<"\n"," "," "," "," ","d","e","f"," ">>, py_name, <<"(","a",","," ","b",")",":","\n"," "," "," "," "," "," "," "," ","i","f"," ">>, g.cond,
           <<":","\n"," "," "," "," "," "," "," "," "," "," "," "," ","r","e","t","u","r","n"," ">>, g.true_ret,
           <<"\n"," "," "," "," "," "," "," "," ","e","l","s","e",":","\n"," "," "," "," "," "," "," "," "," "," "," "," ","r","e","t","u","r","n"," ">>, g.false_ret,
           <<"\n"," "," "," "," ">> >>)

\* Lines 137-150 and 156-168: the raise when nothing matched, the rendering
\* of the three groups otherwise.
Render(text, py_name, m, err) ==
    IF ~m.ok THEN Raise(err)
    ELSE Ok(dedent(PyTemplate(py_name, Groups(text, m))))

c_to_python(c_text, py_name) ==
    Render(c_text, py_name, IF_RETURN_PATTERN(c_text), "CouldNotParseC")

java_to_python(java_text, py_name) ==
    Render(java_text, py_name, IF_RETURN_PATTERN(java_text), "CouldNotParseJava")

(***************************************************************************)
(* parse_python_function                                                   *)
(***************************************************************************)

\* fn_name=None: no --func was given.
NoName == << >>

RECURSIVE ParseLoop(_, _, _, _)
\* The loop of lines 34-55 over tree.body from index i, `first` telling
\* whether a function definition was seen, and the raises of lines 56-58.
ParseLoop(tree, fn_name, i, first) ==
    IF i > Len(tree)
    THEN IF fn_name # NoName /\ first
         THEN Raise("FunctionNotFound")
         ELSE Raise("NoFunctionFound")
    ELSE IF tree[i].kind # "FunctionDef"
         THEN ParseLoop(tree, fn_name, i + 1, first)
         ELSE IF fn_name = NoName \/ tree[i].name = fn_name
              THEN Ok([name |-> tree[i].name, args |-> tree[i].args,
                       ast |-> tree[i]])
              ELSE ParseLoop(tree, fn_name, i + 1, TRUE)

\* A variant that takes a function definition for seen before the loop starts.
ParseAsIfSeen(tree, fn_name) == ParseLoop(tree, fn_name, 1, TRUE)

parse_python_function(tree, fn_name) == ParseLoop(tree, fn_name, 1, FALSE)

\* info before line 227 has run.
NoInfo == [name |-> NoText, args |-> << >>, ast |-> OtherNode]

(***************************************************************************)
(* Modules, the registry sys.modules and the verification run              *)
(***************************************************************************)

\* The paths main derives from --source and --outdir (lines 233-243).
SourcePath     == "original.py"
c_path         == "build/original.c"
java_path      == "build/Original.java"
py_c_path      == "build/original_from_c.py"
py_java_path   == "build/original_from_java.py"
Paths          == {c_path, java_path, py_c_path, py_java_path}

\* A function object: its name, the file its code was compiled from and the
\* verification run (1: C-derived, 2: Java-derived) that created it.
FunctionObject(name, file, run) == [name |-> name, file |-> file, run |-> run]

NoModule     == [id |-> 0, members |-> {}]
NoTestModule == [loaded |-> FALSE, bindings |-> {}]

\* The names the functions of a module are bound to.
NamesOf(members) == {d.name : d \in members}

\* spec.loader.exec_module(module) on the source: one function object per
\* def of the source file, created by this run.
ExecSource(tree, run) ==
    {FunctionObject(tree[i].name, SourcePath, run) :
        i \in {k \in 1..Len(tree) : tree[k].kind = "FunctionDef"}}

\* Whether t holds lit somewhere.
HasSub(t, lit) == \E i \in 1..Len(t) : HasLit(t, i, lit)

\* compile(rt_src, roundtrip_path, 'exec') accepts the rendered function: the
\* text is the six lines of the template (no expression brought a newline
\* in), none of them holds a brace or a semicolon, and no expression is the
\* placeholder '<expr>'.
Compiles(rt_src) ==
    /\ Len(SplitLines(rt_src, 1)) = 7
    /\ \A k \in 1..Len(rt_src) : rt_src[k] \notin {"{", "}", ";"}
    /\ ~HasSub(rt_src, <<"<","e","x","p","r",">">>)

\* The name that executing the rendered text binds: def NAME(a, b):
DefName(rt_src) == SubSeq(rt_src, 6, FindChar(rt_src, 1, "(") - 1)

\* exec(compile(rt_src, ...), module.__dict__): the name the text defines is
\* bound to a new function object, every other entry stays.
Rebind(members, name, roundtrip_path, run) ==
    {d \in members : d.name # name} \cup {FunctionObject(name, roundtrip_path, run)}

ExecInto(members, rt_src, roundtrip_path, run) ==
    Rebind(members, DefName(rt_src), roundtrip_path, run)

\* A variant that patches the module the registry holds, when it holds one,
\* and initialises a new one only in the first run.
LoadCumulative(mods, tree, rt_src, roundtrip_path, run) ==
    IF ~Compiles(rt_src) THEN Raise("SyntaxError")
    ELSE Ok([mods EXCEPT !.original =
                [id |-> run,
                 members |-> ExecInto(IF mods.original.id = 0
                                      THEN ExecSource(tree, run)
                                      ELSE mods.original.members,
                                      rt_src, roundtrip_path, run)]])

\* Lines 207-214 of run_tests_with_roundtrip: a new module is registered as
\* 'original' and initialised from the source, then the round-tripped text is
\* executed in its namespace.
LoadFresh(mods, tree, rt_src, roundtrip_path, run) ==
    IF ~Compiles(rt_src) THEN Raise("SyntaxError")
    ELSE Ok([mods EXCEPT !.original =
                [id |-> run,
                 members |-> ExecInto(ExecSource(tree, run), rt_src,
                                      roundtrip_path, run)]])

\* The names tests/test_original.py imports from 'original' (line 2).
TestImports == {<<"a","d","d","_","m","u","l">>, <<"i","s","_","s","u","m","_","e","v","e","n">>}

\* loader.discover imports test_original unless sys.modules holds it already;
\* the import runs `from original import add_mul, is_sum_even`, which binds
\* the two names in the test module to the objects the registered module has
\* at that moment, and fails when one is missing (a failed import is not
\* kept in sys.modules).
Discover(mods) ==
    IF mods.test_original.loaded THEN mods
    ELSE IF TestImports \subseteq NamesOf(mods.original.members)
    THEN [mods EXCEPT !.test_original =
            [loaded |-> TRUE,
             bindings |-> {d \in mods.original.members : d.name \in TestImports}]]
    ELSE mods

\* run_unittests (lines 185-190): discovery raises when the start directory
\* cannot be imported; otherwise the suite runs the test methods, which call
\* the functions bound in the test module, and the result tells whether all
\* of them passed (tests_pass, the oracle's answer). A test module that could
\* not be imported counts as a failed test.
RunSuite(after, tests_pass) ==
    Ok([mods       |-> after,
        called     |-> after.test_original.bindings,
        successful |-> after.test_original.loaded /\ tests_pass])

\* A variant that takes a start directory it cannot import for a failed run.
MissingDirAsFailure(mods, dir_ok, tests_pass) ==
    RunSuite(Discover(mods), dir_ok /\ tests_pass)

run_unittests(mods, dir_ok, tests_pass) ==
    IF ~dir_ok THEN Raise("ImportError") ELSE RunSuite(Discover(mods), tests_pass)

\* A variant that is content with one of the two runs.
PreservedByEither(c_ok, j_ok) == c_ok \/ j_ok

\* Line 260.
Preserved(c_ok, j_ok) == c_ok /\ j_ok

\* A variant that exits with status 0 whatever the verdict.
ExitZero(preserved) == 0

\* Lines 261-266: sys.exit(0) when preserved, sys.exit(2) otherwise.
ExitCode(preserved) == IF preserved THEN 0 ELSE 2

\* A variant that goes to the verdict as soon as the first run has failed.
SkipJavaOnFailure(successful) == IF successful THEN "verify_j" ELSE "verdict"

\* Line 258 follows line 256 whatever res_c holds.
AfterC(successful) == "verify_j"

(***************************************************************************)
(* The program's inputs                                                    *)
(***************************************************************************)

NameA == Name(<<"a">>)
NameB == Name(<<"b">>)

\* original.py, lines 1-9.
AddMulTest  == Compare(NameA, <<">">>, NameB)
AddMulTrue  == BinOp(BinOp(NameA, <<"*">>, NameB), <<"+">>, Num(<<"1">>))
AddMulFalse == BinOp(NameA, <<"+">>, NameB)
Docstring   == Expr(Num(<<"d","o","c">>))
AddMulBody  ==
    << Docstring, If(AddMulTest, << Return(AddMulTrue) >>, << Return(AddMulFalse) >>) >>

\* original.py, lines 12-20.
SumEvenTest ==
    Compare(BinOp(BinOp(Call(<<"i","n","t">>, NameA), <<"+">>, Call(<<"i","n","t">>, NameB)), <<"%">>, Num(<<"2">>)),
            <<"=","=">>, Num(<<"0">>))
SumEvenBody ==
    << Docstring, If(SumEvenTest, << Return(Num(<<"1">>)) >>, << Return(Num(<<"0">>)) >>) >>

F_add_mul     == FunctionDef(<<"a","d","d","_","m","u","l">>, << <<"a">>, <<"b">> >>, AddMulBody)
F_is_sum_even == FunctionDef(<<"i","s","_","s","u","m","_","e","v","e","n">>, << <<"a">>, <<"b">> >>, SumEvenBody)

\* original.py as the repository has it.
Original == << F_add_mul, F_is_sum_even >>

\* The one conditional of the supported shape, with the product of a sum as a
\* result (parentheses in the emitted text).
PlainIf ==
    If(AddMulTest, << Return(BinOp(NameA, <<"*">>, BinOp(NameA, <<"+">>, NameB))) >>,
       << Return(AddMulFalse) >>)

\* Function bodies of other files given as --source.
Bodies ==
    { << PlainIf >>,
      << Return(NameA), Return(NameB) >>,
      << Assign(Num(<<"1">>)), PlainIf >>,
      << PlainIf, Return(NameA) >>,
      << If(AddMulTest, << Return(NameA) >>, << >>) >>,
      << If(AddMulTest, << Return(NameA) >>, << PlainIf >>) >>,
      << If(AddMulTest, << Assign(AddMulFalse), Return(NameA) >>, << Return(NameB) >>) >>,
      << If(AddMulTest, << Return(NoneValue) >>, << Return(NameB) >>) >>,
      << If(AddMulTest, << Pass >>, << Return(NameB) >>) >> }

FunctionNames == {<<"a","d","d","_","m","u","l">>, <<"n","o","t","i","f">>, <<"s","c","a","l","e">>}

\* The parameters the files declare for each of them.
ArgsOf(n) == IF n = <<"s","c","a","l","e">> THEN << <<"x">> >> ELSE << <<"a">>, <<"b">> >>

Sources ==
    {Original, << >>, << OtherNode >>}
        \cup {<< OtherNode, FunctionDef(n, ArgsOf(n), body), F_is_sum_even >> :
                n \in FunctionNames, body \in Bodies}

\* What argparse makes of the command line.
CommandLines == {"ok", "help", "error"}

\* What --func may be: absent, or a name.
FuncArgs == {NoName, <<"a","d","d","_","m","u","l">>, <<"i","s","_","s","u","m","_","e","v","e","n">>, <<"n","o","t","i","f">>, <<"s","c","a","l","e">>, <<"n","o","s","u","c","h">>}

(***************************************************************************)
(* State                                                                   *)
(***************************************************************************)

VARIABLES
    argv,          \* the command line: "ok", "help" (-h) or "error" (not accepted)
    source,        \* the ast of the file given as --source
    fn,            \* --func, NoName when absent
    run_tests,     \* --run-tests
    pc,            \* main's position
    info,          \* line 227
    c_code,        \* line 229
    java_code,     \* line 230
    py_from_c,     \* line 239
    py_from_java,  \* line 240
    files,         \* what write_file has written under --outdir
    sys_modules,   \* sys.modules: 'original' and 'test_original'
    tests_dir,     \* per run, whether discovery found the start directory
    called,        \* per run, the function objects the test methods called
    res_c,         \* line 256: "none", "pass" or "fail"
    res_j,         \* line 258
    stdout,        \* the verdict line printed: "none", "PRESERVED", "NOT_PRESERVED"
    error,         \* the exception main died of, "none" otherwise
    exit_status    \* << >> while running, << n >> once the process has exited

vars == << argv, source, fn, run_tests, pc, info, c_code, java_code, py_from_c,
           py_from_java, files, sys_modules, tests_dir, called, res_c, res_j,
           stdout, error, exit_status >>

inputs   == << argv, source, fn, run_tests >>
texts    == << c_code, java_code, py_from_c, py_from_java >>
verify   == << sys_modules, tests_dir, called, res_c, res_j >>
outcome  == << stdout, error, exit_status >>

\* Nothing computed yet, for given values of --source, --func, --run-tests.
Fresh(tree, name, flag) ==
    /\ source = tree
    /\ fn = name
    /\ run_tests = flag
    /\ info = NoInfo
    /\ c_code = NoText
    /\ java_code = NoText
    /\ py_from_c = NoText
    /\ py_from_java = NoText
    /\ files = [p \in Paths |-> NoText]
    /\ sys_modules = [original |-> NoModule, test_original |-> NoTestModule]
    /\ tests_dir = [r \in {1, 2} |-> "unset"]
    /\ called = [r \in {1, 2} |-> {}]
    /\ res_c = "none"
    /\ res_j = "none"
    /\ stdout = "none"
    /\ error = "none"
    /\ exit_status = << >>

\* main at line 227, the command line accepted.
Start(tree, name, flag) ==
    /\ argv = "ok"
    /\ pc = "start"
    /\ Fresh(tree, name, flag)

\* main called with a command line.
Launch(line, tree, name, flag) ==
    /\ argv = line
    /\ pc = "args"
    /\ Fresh(tree, name, flag)

Init ==
    \E line \in CommandLines, tree \in Sources, name \in FuncArgs, flag \in BOOLEAN :
        Launch(line, tree, name, flag)

\* An exception nobody catches: the interpreter prints the traceback and
\* exits with status 1.
Die(e) ==
    /\ pc' = "exited"
    /\ error' = e
    /\ exit_status' = << 1 >>
    /\ UNCHANGED stdout

(***************************************************************************)
(* main, step by step.  Each step applies one call of main to the state;   *)
(* the operator named ...Done tells what main does with the call's result  *)
(* r: it goes on, or dies of the exception.                                *)
(***************************************************************************)

\* Line 225: argparse prints the help text and exits with status 0 when asked
\* for it, prints the usage and exits with status 2 when it does not accept
\* the command line.
ParseArgs ==
    /\ pc = "args"
    /\ IF argv = "ok"
       THEN /\ pc' = "start"
            /\ UNCHANGED outcome
       ELSE /\ pc' = "exited"
            /\ exit_status' = << IF argv = "help" THEN 0 ELSE 2 >>
            /\ error' = IF argv = "help" THEN "none" ELSE "UsageError"
            /\ UNCHANGED stdout
    /\ UNCHANGED << inputs, info, texts, files, verify >>

ParseDone(r) ==
    IF r.ok
    THEN /\ info' = r.val
         /\ pc' = "parsed"
         /\ UNCHANGED outcome
    ELSE /\ Die(r.err)
         /\ UNCHANGED info

\* Line 227.
Parse ==
    /\ pc = "start"
    /\ ParseDone(parse_python_function(source, fn))
    /\ UNCHANGED << inputs, texts, files, verify >>

GenerateCDone(r) ==
    IF r.ok
    THEN /\ c_code' = r.val
         /\ pc' = "c_generated"
         /\ UNCHANGED outcome
    ELSE /\ Die(r.err)
         /\ UNCHANGED c_code

\* Line 229.
GenerateC ==
    /\ pc = "parsed"
    /\ GenerateCDone(generate_c_code(info))
    /\ UNCHANGED << inputs, info, java_code, py_from_c, py_from_java, files, verify >>

GenerateJavaDone(r) ==
    IF r.ok
    THEN /\ java_code' = r.val
         /\ pc' = "java_generated"
         /\ UNCHANGED outcome
    ELSE /\ Die(r.err)
         /\ UNCHANGED java_code

\* Line 230.
GenerateJava ==
    /\ pc = "c_generated"
    /\ GenerateJavaDone(generate_java_code(info))
    /\ UNCHANGED << inputs, info, c_code, py_from_c, py_from_java, files, verify >>

\* Lines 232-236.
WriteTargets ==
    /\ pc = "java_generated"
    /\ files' = [files EXCEPT ![c_path] = c_code, ![java_path] = java_code]
    /\ pc' = "targets_written"
    /\ UNCHANGED << inputs, info, texts, verify, outcome >>

CToPythonDone(r) ==
    IF r.ok
    THEN /\ py_from_c' = r.val
         /\ pc' = "c_reversed"
         /\ UNCHANGED outcome
    ELSE /\ Die(r.err)
         /\ UNCHANGED py_from_c

\* Line 239.
CToPython ==
    /\ pc = "targets_written"
    /\ CToPythonDone(c_to_python(c_code, info.name))
    /\ UNCHANGED << inputs, info, c_code, java_code, py_from_java, files, verify >>

JavaToPythonDone(r) ==
    IF r.ok
    THEN /\ py_from_java' = r.val
         /\ pc' = "java_reversed"
         /\ UNCHANGED outcome
    ELSE /\ Die(r.err)
         /\ UNCHANGED py_from_java

\* Line 240.
JavaToPython ==
    /\ pc = "c_reversed"
    /\ JavaToPythonDone(java_to_python(java_code, info.name))
    /\ UNCHANGED << inputs, info, c_code, java_code, py_from_c, files, verify >>

\* Lines 242-254: the round-tripped texts are written; without --run-tests
\* main returns and the process exits with status 0.
WriteRoundTrips ==
    /\ pc = "java_reversed"
    /\ files' = [files EXCEPT ![py_c_path] = py_from_c, ![py_java_path] = py_from_java]
    /\ IF run_tests
       THEN /\ pc' = "verify_c"
            /\ UNCHANGED outcome
       ELSE /\ pc' = "exited"
            /\ exit_status' = << 0 >>
            /\ UNCHANGED << stdout, error >>
    /\ UNCHANGED << inputs, info, texts, verify >>

LoadDone(r, oracle) ==
    IF r.ok
    THEN /\ sys_modules' = r.val
         /\ pc' = oracle
         /\ UNCHANGED outcome
    ELSE /\ Die(r.err)
         /\ UNCHANGED sys_modules

\* Line 256, up to line 214 of run_tests_with_roundtrip.
LoadC ==
    /\ pc = "verify_c"
    /\ LoadDone(LoadFresh(sys_modules, source, files[py_c_path], py_c_path, 1), "oracle_c")
    /\ UNCHANGED << inputs, info, texts, files, tests_dir, called, res_c, res_j >>

OracleCDone(r) ==
    IF r.ok
    THEN /\ sys_modules' = r.val.mods
         /\ called' = [called EXCEPT ![1] = r.val.called]
         /\ res_c' = IF r.val.successful THEN "pass" ELSE "fail"
         /\ pc' = AfterC(r.val.successful)
         /\ UNCHANGED outcome
    ELSE /\ Die(r.err)
         /\ UNCHANGED << sys_modules, called, res_c >>

\* Line 256, line 216 of run_tests_with_roundtrip: the oracle run.  Whether
\* the start directory is there and whether the tests pass is the
\* environment's and the suite's answer.
OracleC ==
    /\ pc = "oracle_c"
    /\ \E dir_ok \in BOOLEAN, tests_pass \in BOOLEAN :
         /\ tests_dir' = [tests_dir EXCEPT ![1] = IF dir_ok THEN "found" ELSE "missing"]
         /\ OracleCDone(run_unittests(sys_modules, dir_ok, tests_pass))
    /\ UNCHANGED << inputs, info, texts, files, res_j >>

\* Line 258, up to line 214 of run_tests_with_roundtrip.
LoadJava ==
    /\ pc = "verify_j"
    /\ LoadDone(LoadFresh(sys_modules, source, files[py_java_path], py_java_path, 2), "oracle_j")
    /\ UNCHANGED << inputs, info, texts, files, tests_dir, called, res_c, res_j >>

OracleJavaDone(r) ==
    IF r.ok
    THEN /\ sys_modules' = r.val.mods
         /\ called' = [called EXCEPT ![2] = r.val.called]
         /\ res_j' = IF r.val.successful THEN "pass" ELSE "fail"
         /\ pc' = "verdict"
         /\ UNCHANGED outcome
    ELSE /\ Die(r.err)
         /\ UNCHANGED << sys_modules, called, res_j >>

\* Line 258, line 216 of run_tests_with_roundtrip: the oracle run.
OracleJava ==
    /\ pc = "oracle_j"
    /\ \E dir_ok \in BOOLEAN, tests_pass \in BOOLEAN :
         /\ tests_dir' = [tests_dir EXCEPT ![2] = IF dir_ok THEN "found" ELSE "missing"]
         /\ OracleJavaDone(run_unittests(sys_modules, dir_ok, tests_pass))
    /\ UNCHANGED << inputs, info, texts, files, res_c >>

VerdictDone(preserved) ==
    /\ stdout' = IF preserved THEN "PRESERVED" ELSE "NOT_PRESERVED"
    /\ exit_status' = << ExitCode(preserved) >>

\* Lines 260-266.
Verdict ==
    /\ pc = "verdict"
    /\ VerdictDone(Preserved(res_c = "pass", res_j = "pass"))
    /\ pc' = "exited"
    /\ UNCHANGED << inputs, info, texts, files, verify, error >>

Next ==
    \/ ParseArgs
    \/ Parse
    \/ GenerateC
    \/ GenerateJava
    \/ WriteTargets
    \/ CToPython
    \/ JavaToPython
    \/ WriteRoundTrips
    \/ LoadC
    \/ OracleC
    \/ LoadJava
    \/ OracleJava
    \/ Verdict

Spec == Init /\ [][Next]_vars

(***************************************************************************)
(* parse_python_function on every small module                             *)
(***************************************************************************)

\* Longest module body tried.
MaxNodes == 3

\* Top-level statements of a module: something that is no function, two
\* functions named f with different parameters, a function named g.
NodePool ==
    { OtherNode,
      FunctionDef(<<"f">>, << <<"a">>, <<"b">> >>, << PlainIf >>),
      FunctionDef(<<"f">>, << <<"x">> >>, << PlainIf >>),
      FunctionDef(<<"g">>, << <<"a">>, <<"b">> >>, << PlainIf >>) }

Trees == UNION {[1..n -> NodePool] : n \in 0..MaxNodes}

ParseNames == {NoName, <<"f">>, <<"g">>, <<"h">>}

InitParse == \E tree \in Trees, name \in ParseNames : Start(tree, name, FALSE)

SpecParse == InitParse /\ [][Parse]_vars

(***************************************************************************)
(* c_to_python and java_to_python on texts that follow the template but     *)
(* hold more statements in the branches                                    *)
(***************************************************************************)

\* Most statements added in one place of a branch.
MaxExtra == 1

\* Statements added to a branch: an assignment, a nested conditional.
ExtraStatements == { <<"x"," ","="," ","1",";"," ">>, <<"i","f"," ","(","c",")"," ","{"," ","r","e","t","u","r","n"," ","1",";"," ","}"," ","e","l","s","e"," ","{"," ","r","e","t","u","r","n"," ","2",";"," ","}"," ">> }

ExtraRuns == UNION {[1..n -> ExtraStatements] : n \in 0..MaxExtra}

\* Where statements are added: before and after the return of the then-
\* branch, before and after the return of the else-branch.
Shapes == [pre : ExtraRuns, post : ExtraRuns, epre : ExtraRuns, epost : ExtraRuns]

HasExtra(s) == s.pre # << >> \/ s.post # << >> \/ s.epre # << >> \/ s.epost # << >>

\* The conditional of the template with the statements of shape s added.
Conditional(s) ==
    Cat(<< <<"i","f"," ","(","a"," ",">"," ","b",")"," ","{"," ">>, Cat(s.pre), <<"r","e","t","u","r","n"," ","a"," ","*"," ","b"," ","+"," ","1",";"," ">>, Cat(s.post),
           <<"}"," ","e","l","s","e"," ","{"," ">>, Cat(s.epre), <<"r","e","t","u","r","n"," ","a"," ","+"," ","b",";"," ">>, Cat(s.epost), <<"}">> >>)

CText(s) == Cat(<< <<"d","o","u","b","l","e"," ","f","(","d","o","u","b","l","e"," ","a",","," ","d","o","u","b","l","e"," ","b",")"," ","{","\n"," "," "," "," ">>, Conditional(s), <<"\n","}","\n">> >>)

JavaText(s) ==
    Cat(<< <<"p","u","b","l","i","c"," ","c","l","a","s","s"," ","O","r","i","g","i","n","a","l"," ","{","\n"," "," "," "," ","p","u","b","l","i","c"," ","s","t","a","t","i","c"," ","d","o","u","b","l","e"," ","f","(","d","o","u","b","l","e"," ","a",","," ","d","o","u","b","l","e"," ","b",")"," ","{","\n"," "," "," "," "," "," "," "," ">>,
           Conditional(s), <<"\n"," "," "," "," ","}","\n","}","\n">> >>)

ReverseTarget == FunctionDef(<<"f">>, << <<"a">>, <<"b">> >>, << PlainIf >>)

\* main after line 236, the two target texts being those of shape s.
StartReverse(s) ==
    /\ argv = "ok"
    /\ source = << ReverseTarget >>
    /\ fn = NoName
    /\ run_tests = FALSE
    /\ pc = "targets_written"
    /\ info = [name |-> <<"f">>, args |-> << <<"a">>, <<"b">> >>, ast |-> ReverseTarget]
    /\ c_code = CText(s)
    /\ java_code = JavaText(s)
    /\ py_from_c = NoText
    /\ py_from_java = NoText
    /\ files = [p \in Paths |-> IF p = c_path THEN CText(s)
                                ELSE IF p = java_path THEN JavaText(s) ELSE NoText]
    /\ sys_modules = [original |-> NoModule, test_original |-> NoTestModule]
    /\ tests_dir = [r \in {1, 2} |-> "unset"]
    /\ called = [r \in {1, 2} |-> {}]
    /\ res_c = "none"
    /\ res_j = "none"
    /\ stdout = "none"
    /\ error = "none"
    /\ exit_status = << >>

InitReverse == \E s \in Shapes : StartReverse(s)

NextReverse == CToPython \/ JavaToPython

SpecReverse == InitReverse /\ [][NextReverse]_vars

(***************************************************************************)
(* Properties                                                              *)
(***************************************************************************)

\* The indices of the function definitions of a module body.
FunctionDefs(tree) == {i \in 1..Len(tree) : tree[i].kind = "FunctionDef"}

\* The indices of the function definitions named name.
Named(tree, name) == {i \in FunctionDefs(tree) : tree[i].name = name}

\* C1: the functions an oracle run calls were installed by that run, and the
\* target function it calls is the one derived from that run's target text:
\* C-derived in the first run, Java-derived in the second.
C1_RunsIndependent ==
    /\ res_c # "none" =>
         \A d \in called[1] :
            d.run = 1 /\ (d.name = info.name => d.file = py_c_path)
    /\ res_j # "none" =>
         \A d \in called[2] :
            d.run = 2 /\ (d.name = info.name => d.file = py_java_path)

\* C2: the verdict main prints is PRESERVED exactly when both oracle runs
\* reported success; it is printed only after both have reported, and one
\* failure makes it NOT_PRESERVED.
C2_VerdictIsConjunction ==
    stdout # "none" =>
        /\ res_c # "none" /\ res_j # "none"
        /\ stdout = "PRESERVED" <=> (res_c = "pass" /\ res_j = "pass")
        /\ stdout = "NOT_PRESERVED" <=> (res_c = "fail" \/ res_j = "fail")

\* One run failed, the other passed, and the verdict was given.
C2_Witness ==
    /\ pc = "exited"
    /\ stdout = "NOT_PRESERVED"
    /\ res_c = "pass"
    /\ res_j = "fail"

\* A branch that is a single return statement.
SingleReturn(branch) == Len(branch) = 1 /\ branch[1].kind = "Return"

\* One conditional with a single return in either branch.
PlainConditional(s) ==
    s.kind = "If" /\ SingleReturn(s.body) /\ SingleReturn(s.orelse)

\* A body of the supported shape (a docstring in front of the conditional
\* is not counted as a statement of it).
SupportedBody(body) ==
    \/ Len(body) = 1 /\ PlainConditional(body[1])
    \/ Len(body) = 2 /\ body[1] = Docstring /\ PlainConditional(body[2])

\* A body of the supported shape whose two returns have a result expression.
SupportedFunction(f) ==
    /\ SupportedBody(f.body)
    /\ \A i \in 1..Len(f.body) :
          f.body[i].kind = "If" =>
              /\ f.body[i].body[1].value # NoneValue
              /\ f.body[i].orelse[1].value # NoneValue

\* What the emitter put into the text it produced from info.
Emitted == IfParts(info.ast, "UnsupportedBodyC").val

\* What the pattern recovers from a text.
Recovered(text) == Groups(text, IF_RETURN_PATTERN(text))

\* C3: every text an emitter produced from a function of the supported subset
\* is matched by the pattern, and the three strings recovered are the three
\* strings the emitter put in.
C3_TemplateInverse ==
    (info # NoInfo /\ SupportedFunction(info.ast)) =>
        /\ c_code # NoText =>
             IF_RETURN_PATTERN(c_code).ok /\ Recovered(c_code) = Emitted
        /\ java_code # NoText =>
             IF_RETURN_PATTERN(java_code).ok /\ Recovered(java_code) = Emitted

\* C4: from a function whose body is not of the supported shape no target
\* text and no round-tripped text is produced, and the run ends with the
\* error for an unsupported body.
C4_UnsupportedRejected ==
    (info # NoInfo /\ ~SupportedBody(info.ast.body)) =>
        /\ c_code = NoText /\ java_code = NoText
        /\ py_from_c = NoText /\ py_from_java = NoText
        /\ pc = "exited" => error \in {"UnsupportedBodyC", "UnsupportedBodyJava"}

\* The texts that hold a statement besides the return in some branch.
CTextsWithExtra == {CText(s) : s \in {x \in Shapes : HasExtra(x)}}

JavaTextsWithExtra == {JavaText(s) : s \in {x \in Shapes : HasExtra(x)}}

\* C5: reverse extraction of a text with a statement besides the return in a
\* branch renders nothing and raises the could-not-parse error.
C5_MalformedRejected ==
    /\ (c_code \in CTextsWithExtra /\ pc # "targets_written") =>
         py_from_c = NoText /\ error = "CouldNotParseC"
    /\ (java_code \in JavaTextsWithExtra /\ pc \notin {"targets_written", "c_reversed"}) =>
         py_from_java = NoText /\ error \in {"CouldNotParseC", "CouldNotParseJava"}

\* The run in progress and the round-tripped file it patches in.
RunAt(p) == IF p = "oracle_c" THEN 1 ELSE 2

PathAt(p) == IF p = "oracle_c" THEN py_c_path ELSE py_java_path

\* C6: the module handed to the oracle holds one function object per
\* function of the source, all created by this run; the target's comes from
\* this run's round-tripped file, every other from the source.
C6_PatchedModule ==
    pc \in {"oracle_c", "oracle_j"} =>
        /\ sys_modules.original.id = RunAt(pc)
        /\ NamesOf(sys_modules.original.members)
              = {source[i].name : i \in FunctionDefs(source)}
        /\ \A d \in sys_modules.original.members :
              /\ d.run = RunAt(pc)
              /\ d.file = IF d.name = info.name THEN PathAt(pc) ELSE SourcePath
        /\ \A d, e \in sys_modules.original.members : d.name = e.name => d = e

\* The second run's patched module, with a sibling of the target in it.
C6_Witness ==
    /\ pc = "oracle_j"
    /\ \E d \in sys_modules.original.members : d.name # info.name
    /\ \E d \in sys_modules.original.members : d.name = info.name

\* C7: an oracle run whose discovery raised ends main with that exception,
\* without result and without verdict; an oracle run that reported failing
\* tests ends main only through the verdict NOT_PRESERVED (or through the
\* discovery of the later run raising).
C7_ErrorsAreNotVerdicts ==
    /\ tests_dir[1] = "missing" =>
         /\ pc = "exited" /\ error = "ImportError" /\ exit_status = << 1 >>
         /\ stdout = "none" /\ res_c = "none" /\ res_j = "none"
    /\ tests_dir[2] = "missing" =>
         /\ pc = "exited" /\ error = "ImportError" /\ exit_status = << 1 >>
         /\ stdout = "none" /\ res_j = "none"
    /\ (res_j = "fail" /\ pc = "exited") =>
         error = "none" /\ stdout = "NOT_PRESERVED"
    /\ (res_c = "fail" /\ pc = "exited") =>
         \/ error = "none" /\ stdout = "NOT_PRESERVED"
         \/ error = "ImportError" /\ tests_dir[2] = "missing"

\* The first run reported failing tests, the second run's discovery raised.
C7_Witness ==
    /\ res_c = "fail"
    /\ tests_dir[2] = "missing"
    /\ pc = "exited"

\* C8 as stated: a name without a function of that name gives the not-found
\* error, also in a module without functions, and the no-function-found
\* error needs the name to be absent.
C8_ErrorsByRequest ==
    pc # "start" =>
        /\ (fn # NoName /\ Named(source, fn) = {}) => error = "FunctionNotFound"
        /\ error = "NoFunctionFound" <=> (fn = NoName /\ FunctionDefs(source) = {})

\* C8, amended: the first function is selected without a name and the first
\* of that name with one; the not-found error is raised exactly when a name
\* is given, the module has functions and none has the name; the
\* no-function-found error exactly when the module has no function, with or
\* without a name.
C8_Selection ==
    pc # "start" =>
        /\ (fn = NoName /\ FunctionDefs(source) # {}) =>
              /\ info.ast = source[MinOf(FunctionDefs(source))]
              /\ info.name = info.ast.name /\ info.args = info.ast.args
        /\ (fn # NoName /\ Named(source, fn) # {}) =>
              /\ info.ast = source[MinOf(Named(source, fn))]
              /\ info.name = fn /\ info.args = info.ast.args
        /\ error = "FunctionNotFound" <=>
              (fn # NoName /\ FunctionDefs(source) # {} /\ Named(source, fn) = {})
        /\ error = "NoFunctionFound" <=> FunctionDefs(source) = {}
        /\ error # "none" => info = NoInfo

\* A name was asked for in a module without functions.
C8_Witness ==
    /\ pc = "exited"
    /\ fn # NoName
    /\ Len(source) > 0
    /\ FunctionDefs(source) = {}
    /\ error = "NoFunctionFound"

\* C9 as stated: status 0 only after both oracle runs reported success.
C9_ZeroOnlyIfVerified ==
    exit_status = << 0 >> => res_c = "pass" /\ res_j = "pass"

\* C9, amended: status 0 only when the help text was asked for, or, with
\* --run-tests, after both oracle runs reported success, or, without it,
\* after all four files were written without error; a run that ends in
\* NOT_PRESERVED, in an exception or in a command line not accepted exits with
\* a status other than 0.
C9_ExitStatus ==
    /\ exit_status = << 0 >> =>
         \/ argv = "help"
         \/ /\ run_tests
            /\ res_c = "pass" /\ res_j = "pass" /\ stdout = "PRESERVED"
         \/ /\ ~run_tests
            /\ error = "none" /\ stdout = "none"
            /\ \A p \in Paths : files[p] # NoText
    /\ (pc = "exited" /\ stdout = "NOT_PRESERVED") => exit_status = << 2 >>
    /\ (pc = "exited" /\ error # "none") => exit_status \in {<< 1 >>, << 2 >>}
    /\ pc = "exited" <=> exit_status # << >>

\* Verification was asked for and the process exited with status 0.
C9_Witness ==
    /\ argv = "ok"
    /\ run_tests
    /\ exit_status = << 0 >>

\* C10: once the C-derived oracle run has reported, main is in the Java-
\* derived verification or past it, and it ends only after the Java-derived
\* oracle run has reported or has raised; the Java-derived run starts only
\* after the C-derived one has reported; the verdict comes after both.
C10_JavaRunFollows ==
    /\ res_c # "none" =>
         /\ pc \in {"verify_j", "oracle_j", "verdict", "exited"}
         /\ pc = "exited" => (res_j # "none" \/ tests_dir[2] = "missing")
    /\ (sys_modules.original.id = 2 \/ tests_dir[2] # "unset" \/ res_j # "none") =>
         res_c # "none"
    /\ (pc = "verdict" \/ stdout # "none") => (res_c # "none" /\ res_j # "none")

\* The Java-derived run reported although the C-derived run had failed.
C10_Witness ==
    /\ res_c = "fail"
    /\ res_j # "none"
    /\ called[2] # {}

====
